---- MODULE Spec2Model ----
(***************************************************************************)
(* Model of src/python.rs of nix-init: the Python dependency-name          *)
(* normalizer get_python_dependency, the Pyproject accessors get_name,     *)
(* load_license and get_dependencies, and parse_requirements_txt.          *)
(*                                                                         *)
(* A Rust String is a sequence of characters; a character is a one-element *)
(* TLA+ string, and the two non-ASCII letters the model uses are written   *)
(* by code point: "U+00C9" (LATIN CAPITAL LETTER E WITH ACUTE) and         *)
(* "U+00E9" (its lowercase).  Option<T> is a sequence of length 0 (None)   *)
(* or 1 (Some).  An f32 weight is held in tenths (1.0 is 10).              *)
(***************************************************************************)
EXTENDS Integers, Sequences, FiniteSets, TLC

VARIABLES dep, project, poetry, licenses, last, returned

vars == <<dep, project, poetry, licenses, last, returned>>

\* ------------------------------------------------------------ bounds

\* Longest input string given to get_python_dependency in SpecNorm.
MaxLen == 4
\* Longest project.dependencies list of a decoded manifest.
MaxDeps == 2
\* Most lines of a requirements.txt.
MaxLines == 2

\* ------------------------------------------------------------ Option

None == << >>

Some(x) == << x >>

is_some(o) == o # None

unwrap(o) == o[1]

\* ------------------------------------------------------------ char

LowerSeq ==
  <<"a","b","c","d","e","f","g","h","i","j","k","l","m",
    "n","o","p","q","r","s","t","u","v","w","x","y","z">>

UpperSeq ==
  <<"A","B","C","D","E","F","G","H","I","J","K","L","M",
    "N","O","P","Q","R","S","T","U","V","W","X","Y","Z">>

AsciiLower == {LowerSeq[i] : i \in 1..26}

AsciiUpper == {UpperSeq[i] : i \in 1..26}

\* char::is_whitespace
is_whitespace(c) == c \in {" ", "\t"}

\* char::is_alphabetic: the Unicode Alphabetic property, not only ASCII.
is_alphabetic(c) == c \in AsciiLower \cup AsciiUpper \cup {"U+00C9", "U+00E9"}

\* char::is_uppercase
is_uppercase(c) == c \in AsciiUpper \cup {"U+00C9"}

\* char::to_ascii_lowercase: maps 'A'..='Z' only, every other char is kept.
to_ascii_lowercase(c) ==
  IF c \in AsciiUpper
    THEN LowerSeq[CHOOSE i \in 1..26 : UpperSeq[i] = c]
    ELSE c

\* char::to_lowercase / str::to_lowercase: the Unicode lowercase mapping.
to_lowercase(c) == IF c = "U+00C9" THEN "U+00E9" ELSE to_ascii_lowercase(c)

\* matches!(c, '-' | '.' | '_')
is_separator(c) == c \in {"-", ".", "_"}

\* ------------------------------------------------------------ normalizer

\* Faulty variant of skip_while_whitespace: leading whitespace is kept.
skip_nothing(chars) == chars

\* dep.chars().skip_while(|c| c.is_whitespace())
RECURSIVE skip_while_whitespace(_)
skip_while_whitespace(chars) ==
  IF chars # << >> /\ is_whitespace(Head(chars))
    THEN skip_while_whitespace(Tail(chars))
    ELSE chars

\* The loop `while let Some(c) = chars.next()`: chars is what the iterator
\* still holds, name the String accumulated so far.
RECURSIVE scan(_, _)
\* Faulty variant of scan: a digit is taken as part of the name.
RECURSIVE scan_through_digits(_, _)
scan_through_digits(chars, name) ==
  IF chars = << >> THEN name
  ELSE LET c == Head(chars) IN
    IF is_alphabetic(c) \/ c \in {"1", "2", "7"}
      THEN scan_through_digits(Tail(chars), Append(name, to_ascii_lowercase(c)))
    ELSE IF is_separator(c)
      THEN IF Len(chars) >= 2 /\ is_alphabetic(chars[2])
             THEN scan_through_digits(SubSeq(chars, 3, Len(chars)),
                       name \o <<"-", to_ascii_lowercase(chars[2])>>)
             ELSE name
    ELSE name

scan(chars, name) ==
  IF chars = << >> THEN name
  ELSE LET c == Head(chars) IN
    IF is_alphabetic(c)
      THEN scan(Tail(chars), Append(name, to_ascii_lowercase(c)))
    ELSE IF is_separator(c)
      \* the inner chars.next() consumes the follower whatever it is
      THEN IF Len(chars) >= 2 /\ is_alphabetic(chars[2])
             THEN scan(SubSeq(chars, 3, Len(chars)),
                       name \o <<"-", to_ascii_lowercase(chars[2])>>)
             ELSE name
    ELSE name

get_python_dependency(d) ==
  LET chars == skip_while_whitespace(d) IN
    IF chars = << >> THEN None
    ELSE IF ~is_alphabetic(Head(chars)) THEN None
    ELSE Some(scan(Tail(chars), <<to_ascii_lowercase(Head(chars))>>))

\* ------------------------------------------------------------ inputs

\* Characters of the inputs of SpecNorm: a lowercase and an uppercase ASCII
\* letter, a non-ASCII uppercase letter, whitespace, the three separators,
\* a digit and a comparison operator.
InputChars == {"a", "B", "U+00C9", " ", "-", ".", "_", "1", ">"}

RECURSIVE StringsUpTo(_)
StringsUpTo(n) ==
  IF n = 0 THEN {<< >>}
  ELSE LET shorter == StringsUpTo(n - 1) IN
    shorter \cup {Append(s, c) : s \in {t \in shorter : Len(t) = n - 1}, c \in InputChars}

NoProject == [name |-> None, license |-> None, dependencies |-> None]

NoCall == [op |-> "none", arg |-> None, ret |-> None]

\* ------------------------------------------------------------ SpecNorm

InitNorm ==
  /\ dep \in StringsUpTo(MaxLen)
  /\ project = NoProject
  /\ poetry = NoProject
  /\ licenses = << >>
  /\ last = NoCall
  /\ returned = {}

call_get_python_dependency ==
  /\ last.op = "none"
  /\ last' = [op |-> "get_python_dependency", arg |-> None,
              ret |-> get_python_dependency(dep)]
  /\ UNCHANGED <<dep, project, poetry, licenses, returned>>

NextNorm == call_get_python_dependency

SpecNorm == InitNorm /\ [][NextNorm]_vars

Normalized == last.op = "get_python_dependency"

\* ------------------------------------------------------------ manifest data

\* Dependency specifiers and requirement lines.
Click == <<"C","l","i","c","k",">","=","7",".","0">>

Comment == <<"#"," ","c","o","m","m","e","n","t">>

SomePackageName ==
  <<"s","o","m","e","_","p","a","c","k","a","g","e",".","n","a","m","e">>

\* Keys of [tool.poetry.dependencies].
Python == <<"p","y","t","h","o","n">>

PythonCapital == <<"P","y","t","h","o","n">>

H2 == <<"h","2">>

FlaskLogin == <<"F","l","a","s","k","_","L","o","g","i","n">>

SpecifierPool == {Click, Comment, SomePackageName}

KeyPool == {Python, PythonCapital, H2, FlaskLogin}

RECURSIVE SeqsUpTo(_, _)
SeqsUpTo(S, n) ==
  IF n = 0 THEN {<< >>}
  ELSE LET shorter == SeqsUpTo(S, n - 1) IN
    shorter \cup {Append(s, x) : s \in {t \in shorter : Len(t) = n - 1}, x \in S}

\* What toml::from_str can decode [project] into.
Projects ==
  [name : {None, Some("project-name")},
   license : {None, Some("MIT"), Some("not a license")},
   dependencies : {None} \cup {Some(l) : l \in SeqsUpTo(SpecifierPool, MaxDeps)}]

\* What toml::from_str can decode [tool.poetry] into; the dependency table
\* is kept as the set of its keys, each paired with () in the source.
Poetries ==
  [name : {None, Some("poetry-name")},
   license : {None, Some("Apache-2.0 OR MIT")},
   dependencies : {None} \cup {Some(ks) : ks \in SUBSET KeyPool}]

\* The weight load_license inserts, 1.0, in tenths.
WeightOne == 10

\* The caller's license collection before this manifest is looked at.
LicenseCollections ==
  {<< >>, [id \in {"MIT", "Apache-2.0"} |-> IF id = "MIT" THEN 10 ELSE 5]}

\* A line read by BufReader::lines(): Err (not valid UTF-8) or Ok(line).
ErrLine == [ok |-> FALSE, line |-> << >>]

OkLine(l) == [ok |-> TRUE, line |-> l]

\* What File::open(src.join("requirements.txt")) can give: Err (None here)
\* or a file of lines.
Files ==
  {None} \cup
  {Some(f) : f \in SeqsUpTo({ErrLine, OkLine(Comment), OkLine(Click)}, MaxLines)}

\* ------------------------------------------------------------ Pyproject

\* crate::license::parse_spdx_expression: the identifiers of a license text,
\* none for a text that is no SPDX expression.
parse_spdx_expression(license) ==
  CASE license = "MIT" -> <<"MIT">>
    [] license = "Apache-2.0 OR MIT" -> <<"Apache-2.0", "MIT">>
    [] OTHER -> << >>

\* Option::or / Option::or_else
or(a, b) == IF is_some(a) THEN a ELSE b

\* Faulty variant of insert: the weight is added to the one already there.
insert_accumulate(map, key) ==
  [k \in DOMAIN map \cup {key} |->
     IF k = key
       THEN (IF key \in DOMAIN map THEN map[key] + WeightOne ELSE WeightOne)
       ELSE map[k]]

\* BTreeMap::insert(key, 1.0)
insert(map, key) ==
  [k \in DOMAIN map \cup {key} |-> IF k = key THEN WeightOne ELSE map[k]]

\* for license in parse_spdx_expression(..) { licenses.insert(license, 1.0) }
RECURSIVE insert_all(_, _)
insert_all(map, ids) ==
  IF ids = << >> THEN map ELSE insert_all(insert(map, Head(ids)), Tail(ids))

\* deps.into_iter().filter_map(get_python_dependency).collect()
RECURSIVE project_dependencies(_)
project_dependencies(deps) ==
  IF deps = << >> THEN {}
  ELSE LET d == get_python_dependency(Head(deps)) IN
    (IF is_some(d) THEN {unwrap(d)} ELSE {}) \cup project_dependencies(Tail(deps))

\* dep.to_lowercase().replace(['_', '.'], "-")
poetry_dependency(key) ==
  [i \in 1..Len(key) |->
     IF key[i] \in {"_", "."} THEN "-" ELSE to_lowercase(key[i])]

\* deps.remove(&("python".into(), ())); then map and collect
poetry_dependencies(deps) == {poetry_dependency(k) : k \in deps \ {Python}}

\* Faulty variant of get_dependencies_result: the Poetry keys are merged
\* into the [project] entries.
get_dependencies_merged(pdeps, tdeps) ==
  IF is_some(pdeps)
    THEN Some(project_dependencies(unwrap(pdeps)) \cup
              (IF is_some(tdeps) THEN poetry_dependencies(unwrap(tdeps)) ELSE {}))
  ELSE IF is_some(tdeps) THEN Some(poetry_dependencies(unwrap(tdeps)))
  ELSE None

\* The value get_dependencies returns for the two fields as they are.
get_dependencies_result(pdeps, tdeps) ==
  IF is_some(pdeps) THEN Some(project_dependencies(unwrap(pdeps)))
  ELSE IF is_some(tdeps) THEN Some(poetry_dependencies(unwrap(tdeps)))
  ELSE None

\* .lines().filter_map(|line| line.ok_warn().and_then(get_python_dependency))
RECURSIVE requirements(_)
\* Faulty variant of requirements: the scan stops at an undecodable line.
RECURSIVE requirements_until_error(_)
requirements_until_error(lines) ==
  IF lines = << >> THEN {}
  ELSE IF ~Head(lines).ok THEN {}
  ELSE LET d == get_python_dependency(Head(lines).line) IN
    (IF is_some(d) THEN {unwrap(d)} ELSE {}) \cup requirements_until_error(Tail(lines))

requirements(lines) ==
  IF lines = << >> THEN {}
  ELSE LET d == IF Head(lines).ok THEN get_python_dependency(Head(lines).line)
                ELSE None
       IN (IF is_some(d) THEN {unwrap(d)} ELSE {}) \cup requirements(Tail(lines))

Init ==
  /\ dep = << >>
  /\ project \in Projects
  /\ poetry \in Poetries
  /\ licenses \in LicenseCollections
  /\ last = NoCall
  /\ returned = {}

Returned(op, r) == IF is_some(r) THEN returned \cup {op} ELSE returned

get_name ==
  LET r == or(project.name, poetry.name) IN
    /\ project' = [project EXCEPT !.name = None]
    \* or_else is lazy: poetry.name is taken only when project.name is None
    /\ poetry' = IF is_some(project.name) THEN poetry
                 ELSE [poetry EXCEPT !.name = None]
    /\ last' = [op |-> "get_name", arg |-> None, ret |-> r]
    /\ returned' = Returned("get_name", r)
    /\ UNCHANGED <<dep, licenses>>

load_license ==
  LET license == or(project.license, poetry.license) IN
    /\ licenses' = IF is_some(license)
                     THEN insert_all(licenses, parse_spdx_expression(unwrap(license)))
                     ELSE licenses
    /\ last' = [op |-> "load_license", arg |-> None, ret |-> None]
    /\ UNCHANGED <<dep, project, poetry, returned>>

get_dependencies ==
  LET r == get_dependencies_result(project.dependencies, poetry.dependencies) IN
    /\ project' = [project EXCEPT !.dependencies = None]
    /\ poetry' = IF is_some(project.dependencies) THEN poetry
                 ELSE [poetry EXCEPT !.dependencies = None]
    /\ last' = [op |-> "get_dependencies", arg |-> None, ret |-> r]
    /\ returned' = Returned("get_dependencies", r)
    /\ UNCHANGED <<dep, licenses>>

parse_requirements_txt ==
  \E file \in Files :
    /\ last' = [op |-> "parse_requirements_txt", arg |-> file,
                ret |-> IF is_some(file) THEN Some(requirements(unwrap(file)))
                        ELSE None]
    /\ UNCHANGED <<dep, project, poetry, licenses, returned>>

\* One caller pass over a decoded manifest.
Next ==
  \/ get_name
  \/ load_license
  \/ get_dependencies

Spec == Init /\ [][Next]_vars

\* The two dependency sources of a source tree: a manifest that declares
\* only dependencies, and the requirements.txt beside it.
InitSources ==
  /\ dep = << >>
  /\ project \in {p \in Projects : p.name = None /\ p.license = None}
  /\ poetry \in {t \in Poetries : t.name = None /\ t.license = None}
  /\ licenses = << >>
  /\ last = NoCall
  /\ returned = {}

NextSources ==
  \/ get_dependencies
  \/ parse_requirements_txt

SpecSources == InitSources /\ [][NextSources]_vars

\* ------------------------------------------------------------ claims C1-C4

\* Number of leading whitespace characters of s.
LeadingWs(s) ==
  CHOOSE n \in 0..Len(s) :
    /\ \A i \in 1..n : is_whitespace(s[i])
    /\ n = Len(s) \/ ~is_whitespace(s[n + 1])

\* Last index of the maximal run of characters satisfying P that starts at
\* index i of s (i - 1 when s[i] does not satisfy P or does not exist).
RunEnd(s, i, P(_)) ==
  CHOOSE k \in (i - 1)..Len(s) :
    /\ \A j \in i..k : P(s[j])
    /\ k = Len(s) \/ ~P(s[k + 1])

\* C1: get_python_dependency returns None exactly when, after the leading
\* whitespace, the input is exhausted or its first remaining character is
\* not alphabetic; every other input gives Some, and never the empty string.
C1_NoResultExactly ==
  Normalized =>
    LET n == LeadingWs(dep) IN
      /\ last.ret = None <=> (n = Len(dep) \/ ~is_alphabetic(dep[n + 1]))
      /\ is_some(last.ret) => unwrap(last.ret) # << >>

\* C1's case: leading whitespace is skipped and a non-alphabetic first
\* character rejects the line.
C1_Witness ==
  /\ Normalized
  /\ LeadingWs(dep) >= 1
  /\ LeadingWs(dep) < Len(dep)
  /\ ~is_alphabetic(dep[LeadingWs(dep) + 1])
  /\ last.ret = None

\* p: optional leading whitespace, an alphabetic character, then only
\* alphabetic and separator characters.
IsNamePart(p) ==
  LET n == LeadingWs(p) IN
    /\ n < Len(p)
    /\ is_alphabetic(p[n + 1])
    /\ \A i \in (n + 1)..Len(p) : is_alphabetic(p[i]) \/ is_separator(p[i])

IsTerminator(c) == ~is_alphabetic(c) /\ ~is_separator(c)

\* C2: for an input p.t.s with p a name part and t a terminator (neither
\* alphabetic nor a separator), the result is that of p alone, whatever the
\* suffix s is: nothing at or after t reaches the output.
C2_TerminatorCutsName ==
  Normalized =>
    \A i \in 1..Len(dep) :
      (IsNamePart(SubSeq(dep, 1, i - 1)) /\ IsTerminator(dep[i])) =>
        /\ last.ret = get_python_dependency(SubSeq(dep, 1, i - 1))
        /\ is_some(last.ret)
        /\ Len(unwrap(last.ret)) <= i - 1 - LeadingWs(dep)

\* C2's case: a name holding a digit is cut at the digit, and the letter
\* after the digit does not reach the output.
C2_Witness ==
  /\ Normalized
  /\ dep = <<"B", "a", "1", "a">>
  /\ last.ret = Some(<<"b", "a">>)

\* C3: when two alphabetic runs are joined by a run of one or more
\* separators (any length, any mix of '-', '.', '_'), the output holds both
\* runs, lowercased, joined by exactly one '-'.  Letters are compared up to
\* case so that only the joining of the runs is at stake.
C3_SeparatorRunsCollapse ==
  Normalized =>
    LET n == LeadingWs(dep)
        a == RunEnd(dep, n + 1, is_alphabetic)
        e == RunEnd(dep, a + 1, is_separator)
        b == RunEnd(dep, e + 1, is_alphabetic)
        la == a - n
        lb == b - e
    IN (la >= 1 /\ e >= a + 1 /\ lb >= 1) =>
         /\ is_some(last.ret)
         /\ LET out == unwrap(last.ret) IN
              /\ Len(out) >= la + 1 + lb
              /\ \A k \in 1..la : to_lowercase(out[k]) = to_lowercase(dep[n + k])
              /\ out[la + 1] = "-"
              /\ \A k \in 1..lb :
                   to_lowercase(out[la + 1 + k]) = to_lowercase(dep[e + k])

\* A canonical dependency identifier: non-empty, alphabetic runs of
\* lowercase letters separated by single hyphens.
IsCanonical(out) ==
  /\ out # << >>
  /\ \A i \in 1..Len(out) :
       \/ is_alphabetic(out[i]) /\ ~is_uppercase(out[i])
       \/ out[i] = "-"
  /\ out[1] # "-"
  /\ out[Len(out)] # "-"
  /\ \A i \in 1..(Len(out) - 1) : ~(out[i] = "-" /\ out[i + 1] = "-")

\* C4: every result of get_python_dependency, for any input (ASCII or
\* not), is a canonical dependency identifier.
C4_ResultIsCanonical ==
  (Normalized /\ is_some(last.ret)) => IsCanonical(unwrap(last.ret))

\* ------------------------------------------------------------ claims C5-C10

Range(f) == {f[i] : i \in DOMAIN f}

\* The entries of a specifier list that normalize, normalized.
NormalizedSet(specifiers) ==
  {unwrap(get_python_dependency(d)) :
     d \in {x \in specifiers : is_some(get_python_dependency(x))}}

\* The identifiers the SPDX collaborator returns for an optional text.
Identifiers(text) ==
  IF is_some(text) THEN Range(parse_spdx_expression(unwrap(text))) ELSE {}

\* C5: when get_dependencies takes its result from the Poetry map and the
\* map holds the key "python", the returned set does not hold "python",
\* whatever the other keys are.
C5_PythonNeverReturned ==
  [][(/\ last'.op = "get_dependencies"
      /\ project.dependencies = None
      /\ is_some(poetry.dependencies)
      /\ Python \in unwrap(poetry.dependencies))
     => Python \notin unwrap(last'.ret)]_vars

\* C6: each accessor uses [project]'s field whenever it is present, and
\* [tool.poetry]'s only when [project]'s is absent, field by field; with
\* both dependency sources declared the result is exactly the normalized
\* [project] entries.
C6_ProjectFirstPerField ==
  [][/\ last'.op = "get_name" =>
          last'.ret = (IF is_some(project.name) THEN project.name ELSE poetry.name)
     /\ last'.op = "load_license" =>
          LET ids == IF is_some(project.license) THEN Identifiers(project.license)
                     ELSE Identifiers(poetry.license)
          IN licenses' = [k \in DOMAIN licenses \cup ids |->
                            IF k \in ids THEN WeightOne ELSE licenses[k]]
     /\ last'.op = "get_dependencies" =>
          last'.ret =
            (IF is_some(project.dependencies)
               THEN Some(NormalizedSet(Range(unwrap(project.dependencies))))
             ELSE IF is_some(poetry.dependencies)
               THEN Some(poetry_dependencies(unwrap(poetry.dependencies)))
             ELSE None)]_vars

\* C6's case: both sections declared dependencies, no [project] entry
\* normalized and nothing of the Poetry map was returned, while the license
\* can only come from [tool.poetry].
C6_Witness ==
  /\ last.op = "get_dependencies"
  /\ last.ret = Some({})
  /\ is_some(poetry.dependencies)
  /\ unwrap(poetry.dependencies) # {}
  /\ project.license = None
  /\ is_some(poetry.license)

\* C7: once get_name has returned a name every later get_name returns
\* None, and likewise for get_dependencies, also when both sections carry
\* the field.
C7_ConsumedAtMostOnce ==
  [][(last'.op \in {"get_name", "get_dependencies"} /\ last'.op \in returned)
     => last'.ret = None]_vars

\* C8: get_dependencies returns None exactly when neither dependency field
\* is present; parse_requirements_txt returns None exactly when the file
\* cannot be opened, and otherwise the set of the decodable lines that
\* normalize, lines after an undecodable one included.
C8_AbsentOrPresent ==
  [][/\ last'.op = "get_dependencies" =>
          (last'.ret = None <=>
             (project.dependencies = None /\ poetry.dependencies = None))
     /\ last'.op = "parse_requirements_txt" =>
          /\ last'.ret = None <=> last'.arg = None
          /\ is_some(last'.arg) =>
               unwrap(last'.ret) =
                 NormalizedSet({l.line : l \in {x \in Range(unwrap(last'.arg)) : x.ok}})]_vars

\* C8's case: an undecodable line is dropped and the line after it is
\* still read.
C8_Witness ==
  /\ last.op = "parse_requirements_txt"
  /\ last.arg = Some(<<ErrLine, OkLine(Click)>>)
  /\ last.ret = Some({<<"c", "l", "i", "c", "k">>})

\* C9: load_license sets every identifier the SPDX collaborator returned to
\* weight 1.0 whatever it was, leaves every other entry as it was, changes
\* nothing when neither section has a license, and never changes the
\* record.
C9_LicenseOverwrite ==
  [][last'.op = "load_license" =>
       LET text == IF is_some(project.license) THEN project.license
                   ELSE poetry.license
           ids == Identifiers(text)
       IN /\ \A id \in ids : id \in DOMAIN licenses' /\ licenses'[id] = WeightOne
          /\ \A id \in (DOMAIN licenses \cup DOMAIN licenses') \ ids :
               /\ id \in DOMAIN licenses
               /\ id \in DOMAIN licenses'
               /\ licenses'[id] = licenses[id]
          /\ text = None => licenses' = licenses
          /\ project' = project
          /\ poetry' = poetry]_vars

\* C9's case: MIT was already in the collection with weight 1.0 from
\* another source; after this record's MIT license it is 1.0, not 2.0, and
\* the entry the collaborator did not return kept its weight.
C9_Witness ==
  /\ last.op = "load_license"
  /\ project.license = Some("MIT")
  /\ DOMAIN licenses = {"MIT", "Apache-2.0"}
  /\ licenses["MIT"] = WeightOne
  /\ licenses["Apache-2.0"] = 5

\* C10: on the Poetry path, the element contributed for every key other
\* than "python" is the result of get_python_dependency on that key, so the
\* returned set is the set of the normalized keys.
C10_PoetryPathIsNormalizer ==
  [][(/\ last'.op = "get_dependencies"
      /\ project.dependencies = None
      /\ is_some(poetry.dependencies))
     => LET keys == unwrap(poetry.dependencies) \ {Python} IN
          /\ \A k \in keys : get_python_dependency(k) = Some(poetry_dependency(k))
          /\ unwrap(last'.ret) = NormalizedSet(keys)]_vars

====
